---- MODULE Spec2Model ----
(***************************************************************************)
(* A model of the word2vec binary-format decoder of src/src/parser.rs:     *)
(* the primitive decoders (ascii_u32_terminated_by, string_terminated_by), *)
(* the header decoder (Word2VecHeader::parse), the record decoder          *)
(* (Word2VecEmbedding::parse) and the loader (Word2Vec::new).              *)
(*                                                                         *)
(* Bytes are the integers 0..255 and a byte slice is a sequence of bytes.  *)
(* A nom IResult is one of                                                 *)
(*   [t |-> "Ok",  rest |-> remaining input, val |-> value]                *)
(*   [t |-> "Err", kind |-> nom ErrorKind,   at  |-> input at the error]   *)
(* and a Rust panic (unwrap / expect / assert_eq!) is                      *)
(*   [t |-> "Panic", site |-> the panicking line].                         *)
(*                                                                         *)
(* TLC's integers are 32-bit signed, so a u32 (and a usize, and the bit    *)
(* pattern of an f32) is kept as two limbs [hi, lo] of value               *)
(* hi * 2^16 + lo with 0 <= lo < 2^16.  usize is taken to be 64 bits wide  *)
(* (the loader maps a multi-gigabyte file), so u32 * 4 never wraps.        *)
(***************************************************************************)
EXTENDS Integers, Sequences, FiniteSets, TLC

VARIABLES
    fileExists,      \* whether File::open finds the file
    mmap,            \* the mapped bytes of the file
    pc,              \* the loader's position in Word2Vec::new
    bytes,           \* the loader's `bytes`: the input not yet consumed
    header,          \* the decoded Word2VecHeader, or None
    embeddings_vec,  \* the records decoded so far by count(...)
    store,           \* the Word2Vec value returned by new, or None
    outcome,         \* how new ended: None while running, Ok or Panic
    spans,           \* history: the offsets [from, to) of the mapped bytes that
                     \* the header and then each decoded record consumed
    args,            \* the arguments of a single decoder call (SpecU32, SpecRecord)
    ret              \* the result of that call, or None

vars == <<fileExists, mmap, pc, bytes, header, embeddings_vec, store, outcome,
          spans, args, ret>>

loaderVars == <<fileExists, mmap, pc, bytes, header, embeddings_vec, store,
                outcome, spans>>

None == [t |-> "None"]

Ok(rest, val) == [t |-> "Ok", rest |-> rest, val |-> val]

Err(kind, at) == [t |-> "Err", kind |-> kind, at |-> at]

Panic(site) == [t |-> "Panic", site |-> site]

----------------------------------------------------------------------------
(* Wide numbers.                                                           *)

W == 2 ^ 16

Num(hi, lo) == [hi |-> hi, lo |-> lo]

NumOfNat(n) == Num(n \div W, n % W)

NumLt(a, b) == a.hi < b.hi \/ (a.hi = b.hi /\ a.lo < b.lo)

\* The value of a wide number that is known to fit TLC's integers.
NumToNat(a) == a.hi * W + a.lo

\* The largest u32, 2^32 - 1.
U32_MAX == Num(W - 1, W - 1)

\* u32::checked_mul(10) followed by u32::checked_add(d), for a digit d.
CheckedMul10Add(a, d) ==
    LET lo == a.lo * 10 + d
        hi == a.hi * 10 + lo \div W
    IN  IF hi >= W THEN [some |-> FALSE]
        ELSE [some |-> TRUE, val |-> Num(hi, lo % W)]

\* embeddings_dim as usize * std::mem::size_of::<f32>(), in a 64-bit usize.
F32_SIZE == 4

MulF32Size(a) ==
    LET lo == a.lo * F32_SIZE
    IN  Num(a.hi * F32_SIZE + lo \div W, lo % W)

----------------------------------------------------------------------------
(* Bytes and text.                                                         *)

SPACE == 32

LINE_FEED == 10

ASCII_ZERO == 48

ASCII_NINE == 57

IsDecDigit(b) == b >= ASCII_ZERO /\ b <= ASCII_NINE

Drop(s, n) == SubSeq(s, n + 1, Len(s))

Take(s, n) == SubSeq(s, 1, n)

\* <[u8] as InputTakeAtPosition>::split_at_position1_complete: the input is
\* split before its first byte satisfying Stop; an empty first part is the
\* error `kind`, and an input with no such byte is taken whole.
SplitAtPosition1(input, Stop(_), kind) ==
    LET n == IF \E k \in 1..Len(input) : Stop(input[k])
             THEN (CHOOSE k \in 1..Len(input) :
                      Stop(input[k]) /\ \A j \in 1..(k - 1) : ~Stop(input[j])) - 1
             ELSE Len(input)
    IN  IF n = 0 THEN Err(kind, input)
        ELSE Ok(Drop(input, n), Take(input, n))

\* nom::character::complete::digit1
digit1(input) ==
    LET NotDigit(b) == ~IsDecDigit(b)
    IN  SplitAtPosition1(input, NotDigit, "Digit")

\* nom::bytes::complete::take_till1(|c| c == terminator)
take_till1(input, terminator) ==
    LET IsTerminator(b) == b = terminator
    IN  SplitAtPosition1(input, IsTerminator, "TakeTill1")

\* nom::bytes::complete::tag(t)
tag(t, input) ==
    IF Len(input) >= Len(t) /\ Take(input, Len(t)) = t
    THEN Ok(Drop(input, Len(t)), t)
    ELSE Err("Tag", input)

\* A take that hands over what is left when less than n bytes are left.
take_available(n, input) ==
    IF NumLt(NumOfNat(Len(input)), n) THEN Ok(<<>>, input)
    ELSE Ok(Drop(input, NumToNat(n)), Take(input, NumToNat(n)))

\* nom::bytes::complete::take(n), n a wide number (a usize)
take(n, input) ==
    IF NumLt(NumOfNat(Len(input)), n) THEN Err("Eof", input)
    ELSE Ok(Drop(input, NumToNat(n)), Take(input, NumToNat(n)))

\* nom::number::complete::le_f32: the bit pattern of f32::from_le_bytes.
le_f32(input) ==
    IF Len(input) < F32_SIZE THEN Err("Eof", input)
    ELSE Ok(Drop(input, F32_SIZE),
            Num(input[4] * 256 + input[3], input[2] * 256 + input[1]))

\* nom::multi::count(le_f32, n): n applications in sequence, each on the
\* input the one before left; the first error is returned as it is.  The
\* n applications are split in two halves to keep the recursion shallow.
RECURSIVE count_le_f32(_, _)
count_le_f32(input, n) ==
    IF n = 0 THEN Ok(input, <<>>)
    ELSE IF n = 1 THEN
        LET r == le_f32(input)
        IN  IF r.t # "Ok" THEN r ELSE Ok(r.rest, <<r.val>>)
    ELSE
        LET a == count_le_f32(input, n \div 2)
        IN  IF a.t # "Ok" THEN a
            ELSE LET b == count_le_f32(a.rest, n - n \div 2)
                 IN  IF b.t # "Ok" THEN b
                     ELSE Ok(b.rest, a.val \o b.val)

----------------------------------------------------------------------------
(* UTF-8, as core::str::Utf8Chunks reads it: one step reads either one     *)
(* well-formed scalar value or one maximal ill-formed prefix.              *)

REPLACEMENT_CHARACTER == 65533

IsCont(s, k) == k <= Len(s) /\ s[k] >= 128 /\ s[k] <= 191

InRange(s, k, lo, hi) == k <= Len(s) /\ s[k] >= lo /\ s[k] <= hi

Second3(s) ==
    \/ s[1] = 224 /\ InRange(s, 2, 160, 191)
    \/ s[1] \in 225..236 /\ InRange(s, 2, 128, 191)
    \/ s[1] = 237 /\ InRange(s, 2, 128, 159)
    \/ s[1] \in 238..239 /\ InRange(s, 2, 128, 191)

Second4(s) ==
    \/ s[1] = 240 /\ InRange(s, 2, 144, 191)
    \/ s[1] \in 241..243 /\ InRange(s, 2, 128, 191)
    \/ s[1] = 244 /\ InRange(s, 2, 128, 143)

Bad(n) == [valid |-> FALSE, n |-> n, cp |-> REPLACEMENT_CHARACTER]

Good(n, cp) == [valid |-> TRUE, n |-> n, cp |-> cp]

Utf8Step(s) ==
    LET b == s[1]
    IN  IF b < 128 THEN Good(1, b)
        ELSE IF b \in 194..223 THEN
            IF IsCont(s, 2) THEN Good(2, (b - 192) * 64 + (s[2] - 128))
            ELSE Bad(1)
        ELSE IF b \in 224..239 THEN
            IF ~Second3(s) THEN Bad(1)
            ELSE IF ~IsCont(s, 3) THEN Bad(2)
            ELSE Good(3, (b - 224) * 4096 + (s[2] - 128) * 64 + (s[3] - 128))
        ELSE IF b \in 240..244 THEN
            IF ~Second4(s) THEN Bad(1)
            ELSE IF ~IsCont(s, 3) THEN Bad(2)
            ELSE IF ~IsCont(s, 4) THEN Bad(3)
            ELSE Good(4, (b - 240) * 262144 + (s[2] - 128) * 4096
                         + (s[3] - 128) * 64 + (s[4] - 128))
        ELSE Bad(1)

\* String::from_utf8_lossy(s).to_string(): the text as its scalar values,
\* every ill-formed part replaced by U+FFFD.
RECURSIVE from_utf8_lossy(_)
from_utf8_lossy(s) ==
    IF s = <<>> THEN <<>>
    ELSE LET st == Utf8Step(s)
         IN  <<st.cp>> \o from_utf8_lossy(Drop(s, st.n))

\* str::from_utf8(s).is_ok()
RECURSIVE from_utf8_ok(_)
from_utf8_ok(s) ==
    IF s = <<>> THEN TRUE
    ELSE LET st == Utf8Step(s)
         IN  st.valid /\ from_utf8_ok(Drop(s, st.n))

\* str::parse::<u32>() on a non-empty run of decimal digits: Some(value), or
\* None (IntErrorKind::PosOverflow) when the value does not fit.
RECURSIVE parse_u32_from(_, _)
parse_u32_from(digits, acc) ==
    IF digits = <<>> THEN [some |-> TRUE, val |-> acc]
    ELSE LET r == CheckedMul10Add(acc, digits[1] - ASCII_ZERO)
         IN  IF ~r.some THEN r
             ELSE parse_u32_from(Drop(digits, 1), r.val)

parse_u32(digits) == parse_u32_from(digits, Num(0, 0))

----------------------------------------------------------------------------
(* The decoders of parser.rs.                                              *)

\* The decoder with the terminator checked but left in the input.
ascii_u32_keeps_terminator(input, terminator) ==
    LET d == digit1(input)
    IN  IF d.t # "Ok" THEN d
        ELSE LET g == tag(<<terminator>>, d.rest)
             IN  IF g.t # "Ok" THEN g
                 ELSE LET n == parse_u32(d.val)
                      IN  IF ~n.some THEN Panic("parser.rs:24")
                          ELSE Ok(d.rest, n.val)

\* The decoder with the digits parsed before the terminator is looked for.
ascii_u32_parses_first(input, terminator) ==
    LET d == digit1(input)
    IN  IF d.t # "Ok" THEN d
        ELSE LET n == parse_u32(d.val)
             IN  IF ~n.some THEN Panic("parser.rs:24")
                 ELSE LET g == tag(<<terminator>>, d.rest)
                      IN  IF g.t # "Ok" THEN g ELSE Ok(g.rest, n.val)

ascii_u32_terminated_by(input, terminator) ==
    LET d == digit1(input)
    IN  IF d.t # "Ok" THEN d
        ELSE LET g == tag(<<terminator>>, d.rest)
             IN  IF g.t # "Ok" THEN g
                 ELSE IF ~from_utf8_ok(d.val) THEN Panic("parser.rs:23")
                 ELSE LET n == parse_u32(d.val)
                      IN  IF ~n.some THEN Panic("parser.rs:24")
                          ELSE Ok(g.rest, n.val)

string_terminated_by(input, terminator) ==
    LET s == take_till1(input, terminator)
    IN  IF s.t # "Ok" THEN s
        ELSE LET g == tag(<<terminator>>, s.rest)
             IN  IF g.t # "Ok" THEN g
                 ELSE Ok(g.rest, from_utf8_lossy(s.val))

\* Word2VecHeader::parse
HeaderParse(input) ==
    LET c == ascii_u32_terminated_by(input, SPACE)
    IN  IF c.t # "Ok" THEN Panic("parser.rs:40")
        ELSE LET d == ascii_u32_terminated_by(c.rest, LINE_FEED)
             IN  IF d.t # "Ok" THEN Panic("parser.rs:41")
                 ELSE Ok(d.rest, [embeddings_count |-> c.val,
                                  embeddings_dim |-> d.val])

\* The number of floats count(le_f32, ...) is asked for.
EMBEDDING_FLOATS == 300

\* Word2VecEmbedding::parse
EmbeddingParse(input, embeddings_dim) ==
    LET w == string_terminated_by(input, SPACE)
    IN  IF w.t # "Ok" THEN Panic("parser.rs:76")
        ELSE LET e == take(MulF32Size(embeddings_dim), w.rest)
             IN  IF e.t # "Ok" THEN e
                 ELSE LET f == count_le_f32(e.val, EMBEDDING_FLOATS)
                      IN  IF f.t # "Ok" THEN f
                          ELSE IF Len(f.rest) # 0 THEN Panic("parser.rs:84")
                          ELSE Ok(e.rest, [word |-> w.val, embedding |-> f.val])

----------------------------------------------------------------------------
(* The loader, Word2Vec::new, one action per step of its straight line.    *)

\* An insert that keeps the value already stored under the key.
InsertIfAbsent(m, k, v) == m @@ (k :> v)

\* HashMap::insert: a later value replaces the one stored under the key.
Insert(m, k, v) == (k :> v) @@ m

\* embeddings_vec.into_iter().map(|e| (e.word.clone(), e)).collect():
\* HashMap::from_iter inserts the pairs in the order of the vector.
RECURSIVE FromIter(_, _)
FromIter(vec, m) ==
    IF vec = <<>> THEN m
    ELSE FromIter(Tail(vec), Insert(m, vec[1].word, vec[1]))

\* The loop test of nom's count(f, header.embeddings_count as usize).
MoreToCount(vec, hdr) == NumLt(NumOfNat(Len(vec)), hdr.embeddings_count)

\* The offsets of the mapped bytes between which a decoder moved the cursor:
\* a slice of the map is a suffix of it, so its offset is what it lacks.
Span(before, after) ==
    [from |-> Len(mmap) - Len(before), to |-> Len(mmap) - Len(after)]

\* File::open(file).unwrap() and MmapOptions::new().map(&file).unwrap().
\* Mapping a file of length zero is an error in some versions of memmap2 and
\* an empty slice in others.
OpenMap ==
    /\ pc = "open"
    /\ \/ /\ ~fileExists
          /\ pc' = "panicked"
          /\ outcome' = Panic("parser.rs:97")
          /\ UNCHANGED bytes
       \/ /\ fileExists
          /\ Len(mmap) = 0
          /\ pc' = "panicked"
          /\ outcome' = Panic("parser.rs:100")
          /\ UNCHANGED bytes
       \/ /\ fileExists
          /\ pc' = "header"
          /\ bytes' = mmap
          /\ UNCHANGED outcome
    /\ UNCHANGED <<fileExists, mmap, header, embeddings_vec, store, spans,
                   args, ret>>

\* Word2VecHeader::parse(bytes).expect("Cannot parse file header.")
ParseHeader ==
    /\ pc = "header"
    /\ LET r == HeaderParse(bytes)
       IN  IF r.t = "Ok"
           THEN /\ header' = r.val
                /\ bytes' = r.rest
                /\ spans' = Append(spans, Span(bytes, r.rest))
                /\ pc' = "count"
                /\ UNCHANGED outcome
           ELSE /\ outcome' = IF r.t = "Panic" THEN r ELSE Panic("parser.rs:103")
                /\ pc' = "panicked"
                /\ UNCHANGED <<header, bytes, spans>>
    /\ UNCHANGED <<fileExists, mmap, embeddings_vec, store, args, ret>>

\* An iteration that decodes from where the header ended, not from where
\* the record before it ended.
ParseEmbeddingRewound ==
    /\ pc = "count"
    /\ MoreToCount(embeddings_vec, header)
    /\ LET from == Drop(mmap, spans[1].to)
           r    == EmbeddingParse(from, header.embeddings_dim)
       IN  IF r.t = "Ok"
           THEN /\ embeddings_vec' = Append(embeddings_vec, r.val)
                /\ bytes' = r.rest
                /\ spans' = Append(spans, Span(from, r.rest))
                /\ UNCHANGED <<pc, outcome>>
           ELSE /\ outcome' = IF r.t = "Panic" THEN r ELSE Panic("parser.rs:109")
                /\ pc' = "panicked"
                /\ UNCHANGED <<embeddings_vec, bytes, spans>>
    /\ UNCHANGED <<fileExists, mmap, header, store, args, ret>>

\* One iteration of count(|b| Word2VecEmbedding::parse(b, dim), count)(bytes);
\* an Err of the record decoder leaves count and meets .expect(...).
ParseEmbedding ==
    /\ pc = "count"
    /\ MoreToCount(embeddings_vec, header)
    /\ LET r == EmbeddingParse(bytes, header.embeddings_dim)
       IN  IF r.t = "Ok"
           THEN /\ embeddings_vec' = Append(embeddings_vec, r.val)
                /\ bytes' = r.rest
                /\ spans' = Append(spans, Span(bytes, r.rest))
                /\ UNCHANGED <<pc, outcome>>
           ELSE /\ outcome' = IF r.t = "Panic" THEN r ELSE Panic("parser.rs:109")
                /\ pc' = "panicked"
                /\ UNCHANGED <<embeddings_vec, bytes, spans>>
    /\ UNCHANGED <<fileExists, mmap, header, store, args, ret>>

\* The step after count with the assertion left out.
AssertEndUnchecked ==
    /\ pc = "count"
    /\ ~MoreToCount(embeddings_vec, header)
    /\ pc' = "collect"
    /\ UNCHANGED <<fileExists, mmap, bytes, header, embeddings_vec, store,
                   outcome, spans, args, ret>>

\* count has produced embeddings_count records: assert_eq!(bytes.len(), 0).
AssertEnd ==
    /\ pc = "count"
    /\ ~MoreToCount(embeddings_vec, header)
    /\ IF Len(bytes) = 0
       THEN pc' = "collect" /\ UNCHANGED outcome
       ELSE pc' = "panicked" /\ outcome' = Panic("parser.rs:111")
    /\ UNCHANGED <<fileExists, mmap, bytes, header, embeddings_vec, store,
                   spans, args, ret>>

\* The HashMap is collected and Word2Vec { header, embeddings } returned.
Collect ==
    /\ pc = "collect"
    /\ store' = [header |-> header, embeddings |-> FromIter(embeddings_vec, <<>>)]
    /\ outcome' = [t |-> "Ok"]
    /\ pc' = "done"
    /\ UNCHANGED <<fileExists, mmap, bytes, header, embeddings_vec, spans,
                   args, ret>>

----------------------------------------------------------------------------
(* The files the loader is run on.                                         *)

\* The most records a generated file holds.
MaxRecords == 2

RECURSIVE Flatten(_)
Flatten(ss) == IF ss = <<>> THEN <<>> ELSE ss[1] \o Flatten(Tail(ss))

\* u32's Display / format!("{n}"): the decimal digits, no leading zero.
RECURSIVE Format(_)
Format(n) ==
    LET mid == (n.hi % 10) * W + n.lo
        q   == Num(n.hi \div 10, 0)
        qlo == mid \div 10
        quo == Num(q.hi + qlo \div W, qlo % W)
    IN  IF n.hi = 0 /\ n.lo < 10 THEN <<ASCII_ZERO + n.lo>>
        ELSE Format(quo) \o <<ASCII_ZERO + (mid % 10)>>

Fill(n, b) == [k \in 1..n |-> b]

\* A well-formed record of dimension d: the word, a space, d floats whose
\* bytes are all b.
RecordBytes(word, d, b) == word \o <<SPACE>> \o Fill(d * F32_SIZE, b)

\* (word, fill) of the records of a generated file: a repeated word with
\* two vectors, and another word, which is not UTF-8.
RecordKinds ==
    { [word |-> <<97>>, fill |-> 1], [word |-> <<97>>, fill |-> 2],
      [word |-> <<255>>, fill |-> 1] }

RecordLists == UNION {[1..n -> RecordKinds] : n \in 0..MaxRecords}

DimSamples == {1, EMBEDDING_FLOATS, EMBEDDING_FLOATS + 1}

\* What follows the complete records: nothing, a stray byte, a word with no
\* space, an empty word, a record one byte short.
Tails(d) ==
    { <<>>, <<0>>, <<97>>, <<SPACE>>, <<97, SPACE>> \o Fill(d * F32_SIZE - 1, 1) }

WellFormedHeader(c, d) ==
    Format(NumOfNat(c)) \o <<SPACE>> \o Format(NumOfNat(d)) \o <<LINE_FEED>>

FilesOf(c, d) ==
    { WellFormedHeader(c, d)
        \o Flatten([k \in 1..Len(rs) |-> RecordBytes(rs[k].word, d, rs[k].fill)])
        \o t :
        rs \in RecordLists, t \in Tails(d) }

GoodHeaderFiles ==
    UNION { FilesOf(c, d) : c \in 0..(MaxRecords + 1), d \in DimSamples }

\* Headers the header decoder rejects, and counts no file can hold.
OddHeaderFiles ==
    { <<>>,
      <<120>>,
      <<50>>,
      <<50, SPACE>>,
      <<50, SPACE, 51>>,
      <<50, 59, 51, LINE_FEED>>,
      <<50, SPACE, 51, SPACE>>,
      <<SPACE, 51, LINE_FEED>>,
      Format(U32_MAX) \o <<SPACE, 49, LINE_FEED>>,
      Format(U32_MAX) \o <<SPACE, 49, LINE_FEED, 97, SPACE, 1, 1, 1, 1>>,
      <<49, SPACE>> \o Format(U32_MAX) \o <<LINE_FEED, 97, SPACE, 1, 1, 1, 1>>,
      <<52, 50, 57, 52, 57, 54, 55, 50, 57, 54, SPACE, 49, LINE_FEED>>,
      <<49, SPACE, 52, 50, 57, 52, 57, 54, 55, 50, 57, 54, LINE_FEED>> }

Files == GoodHeaderFiles \cup OddHeaderFiles

Idle ==
    /\ fileExists = FALSE
    /\ mmap = <<>>
    /\ pc = "idle"
    /\ bytes = <<>>
    /\ header = None
    /\ embeddings_vec = <<>>
    /\ store = None
    /\ outcome = None
    /\ spans = <<>>

Init ==
    /\ \/ fileExists = TRUE /\ mmap \in Files
       \/ fileExists = FALSE /\ mmap = <<>>
    /\ pc = "open"
    /\ bytes = <<>>
    /\ header = None
    /\ embeddings_vec = <<>>
    /\ store = None
    /\ outcome = None
    /\ spans = <<>>
    /\ args = None
    /\ ret = None

Next ==
    \/ OpenMap
    \/ ParseHeader
    \/ ParseEmbedding
    \/ AssertEnd
    \/ Collect

Spec == Init /\ [][Next]_vars

----------------------------------------------------------------------------
(* ascii_u32_terminated_by on its own: one call on an input drawn from     *)
(* digit runs (formatted numbers, numbers past u32, leading zeros) with    *)
(* what may follow them, and a terminator.                                 *)

\* The most zeros put before a formatted number.
MaxLeadingZeros == 1

U32Samples ==
    { Num(hi, lo) : hi \in {0, 1, 14095, W - 1}, lo \in {0, 9, 10, 2977, W - 1} }

\* Digit runs that denote 2^32 and more: 4294967296, 9999999999, 42949672950.
PastU32 ==
    { <<52, 50, 57, 52, 57, 54, 55, 50, 57, 54>>,
      <<57, 57, 57, 57, 57, 57, 57, 57, 57, 57>>,
      <<52, 50, 57, 52, 57, 54, 55, 50, 57, 53, 48>> }

DigitRuns ==
    {<<>>} \cup
    { Fill(z, ASCII_ZERO) \o r :
        z \in 0..MaxLeadingZeros,
        r \in {Format(n) : n \in U32Samples} \cup PastU32 }

\* What follows the digit run: nothing, a terminator, a terminator and more,
\* a letter in the middle of a number.
Suffixes ==
    { <<>>, <<59>>, <<SPACE>>, <<LINE_FEED>>, <<46>>, <<59, 59>>,
      <<99, 105, 97, 111, 49, 50, 51, 59>> }

Terminators == {59, SPACE, LINE_FEED, ASCII_ZERO}

InitU32 ==
    /\ Idle
    /\ args \in { [fn |-> "ascii_u32_terminated_by", input |-> r \o x,
                   terminator |-> t] :
                  r \in DigitRuns, x \in Suffixes, t \in Terminators }
    /\ ret = None

CallU32 ==
    /\ args.fn = "ascii_u32_terminated_by"
    /\ ret = None
    /\ ret' = ascii_u32_terminated_by(args.input, args.terminator)
    /\ UNCHANGED <<loaderVars, args>>

NextU32 == CallU32

SpecU32 == InitU32 /\ [][NextU32]_vars

----------------------------------------------------------------------------
(* Word2VecEmbedding::parse on its own: one call on a word, a space or     *)
(* none, and a run of bytes about as long as the vector of some dimension. *)

\* How far the length of the bytes after the word is from 4 * dimension.
MaxSlack == 1

SmallDims == {0, 1, 2, EMBEDDING_FLOATS - 1, EMBEDDING_FLOATS, EMBEDDING_FLOATS + 1}

\* Dimensions, among them 2^30 (whose vector is 2^32 bytes) and 2^32 - 1.
DimArgs == {Num(0, d) : d \in SmallDims} \cup {Num(W \div 4, 0), U32_MAX}

PayloadLens ==
    { n \in { d * F32_SIZE + k : d \in SmallDims, k \in (0 - MaxSlack)..MaxSlack } :
        n >= 0 }

WordArgs == { <<>>, <<97>>, <<99, 97, 116>>, <<195, 169>>, <<255, 97>> }

InitRecord ==
    /\ Idle
    /\ args \in { [fn |-> "Word2VecEmbedding::parse",
                   input |-> w \o sep \o Fill(n, b), embeddings_dim |-> d] :
                  w \in WordArgs, sep \in {<<>>, <<SPACE>>}, n \in PayloadLens,
                  b \in {1, SPACE}, d \in DimArgs }
    /\ ret = None

CallRecord ==
    /\ args.fn = "Word2VecEmbedding::parse"
    /\ ret = None
    /\ ret' = EmbeddingParse(args.input, args.embeddings_dim)
    /\ UNCHANGED <<loaderVars, args>>

NextRecord == CallRecord

SpecRecord == InitRecord /\ [][NextRecord]_vars

----------------------------------------------------------------------------
(* The properties.                                                         *)

Last(q) == q[Len(q)]

RECURSIVE SumOfSpans(_)
SumOfSpans(sp) ==
    IF sp = <<>> THEN 0 ELSE (sp[1].to - sp[1].from) + SumOfSpans(Tail(sp))

\* C1: when the load completes successfully, the number of records decoded
\* is the header's record count, and the header and the records together
\* consumed exactly the bytes of the file: none remain.
C1_LoadConsumesWholeFile ==
    pc = "done" =>
        /\ NumOfNat(Len(embeddings_vec)) = store.header.embeddings_count
        /\ Len(spans) = Len(embeddings_vec) + 1
        /\ SumOfSpans(spans) = Len(mmap)
        /\ Len(bytes) = 0

C1_Witness == pc = "done" /\ Len(embeddings_vec) >= 2 /\ Len(mmap) > 0

\* The number of leading decimal digits of an input.
LeadingDigits(input) ==
    IF \A k \in 1..Len(input) : IsDecDigit(input[k]) THEN Len(input)
    ELSE (CHOOSE k \in 1..Len(input) :
             ~IsDecDigit(input[k]) /\ \A j \in 1..(k - 1) : IsDecDigit(input[j])) - 1

RECURSIVE StripZeros(_)
StripZeros(run) ==
    IF run # <<>> /\ run[1] = ASCII_ZERO THEN StripZeros(Tail(run)) ELSE run

\* 4294967295, the decimal text of 2^32 - 1.
U32MaxText == <<52, 50, 57, 52, 57, 54, 55, 50, 57, 53>>

\* Whether a run of decimal digits denotes 2^32 or more, read off the text.
DenotesPastU32(run) ==
    LET r == StripZeros(run)
    IN  \/ Len(r) > Len(U32MaxText)
        \/ /\ Len(r) = Len(U32MaxText)
           /\ \E k \in 1..Len(r) :
                 /\ r[k] > U32MaxText[k]
                 /\ \A j \in 1..(k - 1) : r[j] = U32MaxText[j]

\* Whether the call is on a non-empty digit run followed by the terminator.
TerminatedRun ==
    LET n == LeadingDigits(args.input)
    IN  n > 0 /\ n < Len(args.input) /\ args.input[n + 1] = args.terminator

\* C5: ascii_u32_terminated_by on decimal digits that denote 2^32 or more,
\* followed by the terminator, returns the IntegerOverflow error result: it
\* neither returns a value nor terminates abruptly.
C5_OverflowIsErrorResult ==
    (/\ ret # None
     /\ TerminatedRun
     /\ DenotesPastU32(Take(args.input, LeadingDigits(args.input))))
        => (ret.t = "Err" /\ ret.kind = "IntegerOverflow")

\* C6: for every n of the 32-bit unsigned range and every terminator that is
\* not a digit, ascii_u32_terminated_by on the decimal text of n followed by
\* the terminator succeeds with the value n and an empty remaining input.
C6_RoundTrip ==
    \A n \in U32Samples :
        (/\ ret # None
         /\ ~IsDecDigit(args.terminator)
         /\ args.input = Format(n) \o <<args.terminator>>)
            => ret = Ok(<<>>, n)

\* The call of the test: 923732897 followed by ';'.
C6_Witness ==
    /\ ret # None
    /\ args.terminator = 59
    /\ args.input = <<57, 50, 51, 55, 51, 50, 56, 57, 55, 59>>
    /\ ret = Ok(<<>>, Num(14095, 2977))

\* C7: ascii_u32_terminated_by returns an error, and no value, whenever the
\* leading digit run is not immediately followed by the terminator: another
\* byte follows it, or the input ends with it.
C7_MissingTerminatorIsError ==
    (/\ ret # None
     /\ LET n == LeadingDigits(args.input)
        IN  n = Len(args.input) \/ args.input[n + 1] # args.terminator)
        => ret.t = "Err"

\* A digit run past u32 with a letter after it, and one the input ends with.
C7_Witness ==
    /\ ret # None
    /\ ret.t = "Err"
    /\ LET n == LeadingDigits(args.input)
       IN  /\ n > 0
           /\ DenotesPastU32(Take(args.input, n))
           /\ n < Len(args.input)
           /\ args.input[n + 1] # args.terminator

\* Whether the input starts with a word token: bytes other than a space,
\* at least one, and then a space.
HasWordToken(input) ==
    \E k \in 2..Len(input) :
        input[k] = SPACE /\ \A j \in 1..(k - 1) : input[j] # SPACE

\* The number of bytes after the word token and its space.
AfterWord(input) ==
    Len(input) - (CHOOSE k \in 1..Len(input) :
                     input[k] = SPACE /\ \A j \in 1..(k - 1) : input[j] # SPACE)

\* Whether fewer than dimension * 4 bytes follow the word token.
VectorTruncated ==
    \/ args.embeddings_dim.hi > 0
    \/ AfterWord(args.input) < args.embeddings_dim.lo * 4

\* C2: for any header dimension d, the record decoder takes the number of
\* components from d: a word token followed by d * 4 bytes or more decodes
\* to a record whose vector has exactly d components.
C2_VectorLengthIsHeaderDimension ==
    (ret # None /\ HasWordToken(args.input) /\ ~VectorTruncated)
        => (/\ ret.t = "Ok"
            /\ NumOfNat(Len(ret.val.embedding)) = args.embeddings_dim)

\* C9: Word2VecEmbedding::parse with dimension d returns an error result
\* whenever fewer than d * 4 bytes remain after the word token and its
\* space; it never returns a record with a shortened vector.
C9_TruncatedVectorIsError ==
    (ret # None /\ HasWordToken(args.input) /\ VectorTruncated)
        => (ret.t = "Err" /\ ret.kind = "Eof" /\ ret.at = Drop(args.input,
                Len(args.input) - AfterWord(args.input)))

\* Dimension 301 with the 1200 bytes of 300 floats after the word.
C9_Witness ==
    /\ ret # None
    /\ ret.t = "Err"
    /\ HasWordToken(args.input)
    /\ args.embeddings_dim = Num(0, EMBEDDING_FLOATS + 1)
    /\ AfterWord(args.input) = EMBEDDING_FLOATS * 4

\* C3: on a malformed file the load ends with an error value returned to the
\* caller and no store; no decode failure ends it abruptly.
C3_MalformedIsReturnedError ==
    (fileExists /\ Len(mmap) > 0)
        => (/\ outcome.t \in {"None", "Ok", "Err"}
            /\ outcome.t = "Err" => store = None)

\* Whether the load has ended on a file whose record count is more than the
\* records before its end, or on one with bytes after its last record.
LengthMismatched ==
    /\ pc \in {"done", "panicked"}
    /\ header # None
    /\ \/ MoreToCount(embeddings_vec, header) /\ Len(bytes) = 0
       \/ ~MoreToCount(embeddings_vec, header) /\ Len(bytes) > 0

\* C4: a file that declares more records than it holds, and a file with
\* bytes after its last declared record, make the load fail with
\* LengthMismatch, and no store is produced.
C4_LengthMismatchIsReturned ==
    LengthMismatched
        => (outcome.t = "Err" /\ outcome.kind = "LengthMismatch" /\ store = None)

\* The index of the latest record of the vector with the word w.
LatestWith(vec, w) ==
    CHOOSE j \in 1..Len(vec) :
        vec[j].word = w /\ \A k \in (j + 1)..Len(vec) : vec[k].word # w

\* C8: after a successful load the store holds, for every word of the
\* file's records, one entry, whose vector is that of the latest record with
\* the word; its keys are exactly the words of the records, and they are
\* no more than the record count.
C8_LastWriteWins ==
    pc = "done" =>
        LET m == store.embeddings
        IN  /\ DOMAIN m = {embeddings_vec[j].word : j \in 1..Len(embeddings_vec)}
            /\ \A w \in DOMAIN m :
                  m[w] = embeddings_vec[LatestWith(embeddings_vec, w)]
            /\ ~NumLt(store.header.embeddings_count,
                      NumOfNat(Cardinality(DOMAIN m)))

\* A loaded file with the same word twice and two different vectors.
C8_Witness ==
    /\ pc = "done"
    /\ \E i, j \in 1..Len(embeddings_vec) :
          /\ i < j
          /\ embeddings_vec[i].word = embeddings_vec[j].word
          /\ embeddings_vec[i].embedding # embeddings_vec[j].embedding
          /\ store.embeddings[embeddings_vec[i].word] = embeddings_vec[j]

\* The offset of the loader's cursor in the mapped bytes.
Offset == Len(mmap) - Len(bytes)

C10_Step ==
    \* one cursor over one map, which only moves forward and stays inside
    /\ mmap' = mmap
    /\ pc = "open" => (pc' = "header" => Offset' = 0)
    /\ pc # "open" =>
          /\ bytes' = Drop(mmap, Offset')
          /\ Offset <= Offset' /\ Offset' <= Len(mmap)
    \* the header is decoded first, from offset 0
    /\ header' # header =>
          /\ pc = "header" /\ Offset = 0 /\ spans = <<>>
          /\ embeddings_vec = <<>>
          /\ spans' = <<[from |-> 0, to |-> Offset']>>
    \* a record is decoded from where the one before it (or the header) ended
    /\ embeddings_vec' # embeddings_vec =>
          /\ header # None /\ header' = header
          /\ Len(embeddings_vec') = Len(embeddings_vec) + 1
          /\ Len(spans') = Len(spans) + 1
          /\ Last(spans').from = Last(spans).to
          /\ Last(spans').from = Offset
          /\ Last(spans').to = Offset'
    \* the check for leftover bytes comes after all the records
    /\ (pc # "collect" /\ pc' = "collect") =>
          /\ ~MoreToCount(embeddings_vec, header)
          /\ Len(bytes) = 0
    \* the store is built after the check and from the records decoded
    /\ store' # store =>
          /\ pc = "collect" /\ store = None
          /\ pc' = "done"
    /\ store = None => pc' # "done" \/ store' # None

\* C10: the load is one linear pass over one cursor: the header is decoded
\* first from offset 0, each record is decoded from the offset where the one
\* before it ended, the offset never decreases and never passes the length
\* of the file, the leftover check comes after all the records, and the
\* store is built only after that check has passed.
C10_LinearSinglePass == [][C10_Step]_vars

C10_Witness == pc = "done" /\ Len(spans) >= 3 /\ store # None

====
